---- MODULE Spec2Model ----
(***************************************************************************)
(* The App controller of ExpoSQLite_Tutorial/app/index.tsx: the form       *)
(* fields, the edit-mode flag, the list shown, the delete confirmation     *)
(* prompt and the asynchronous store requests the handlers leave in        *)
(* flight.  The item store itself (../data/db) is not part of the source   *)
(* tree; its four operations are modelled from the specification.          *)
(*                                                                         *)
(* Text is a sequence of one-character strings, so that trim, parseInt and *)
(* String are computed character by character as the JavaScript functions  *)
(* compute them.  A JavaScript number is a record [nan, int]: the integer  *)
(* it holds, or NaN.                                                       *)
(***************************************************************************)
EXTENDS Integers, Sequences, FiniteSets, Bags, TLC

VARIABLES
    name,       \* form field: useState<string>("")             (index.tsx:31)
    quantity,   \* form field: useState<string>("")             (index.tsx:32)
    editingId,  \* edit-mode flag: useState<number | null>(null) (index.tsx:33)
    items,      \* the list shown: useState<Item[]>([])         (index.tsx:41)
    alert,      \* the open "Delete item?" prompt, or NoAlert   (index.tsx:194)
    tasks,      \* bag of the handler invocations suspended at an await
    store,      \* rows of the item table, in rowid order
    nextId,     \* the id the store assigns to the next inserted row
    calls       \* handler invocations that have reached a store call so far

vars == <<name, quantity, editingId, items, alert, tasks, store, nextId, calls>>

\* The visible state the controller owns: list, form fields, edit-mode flag.
visible == <<items, name, quantity, editingId>>

(***************************************************************************)
(* Bounds of the model.                                                    *)
(***************************************************************************)
\* Store-calling handler invocations (valid submits and confirmed deletes)
\* the user makes in one run; the fetch on mount is not counted.
MaxCalls == 2

(***************************************************************************)
(* JavaScript values.                                                      *)
(***************************************************************************)
\* null, the value of editingId in idle-create; no row id equals it.
Null == 0

NaN == [nan |-> TRUE, int |-> 0]
Num(n) == [nan |-> FALSE, int |-> n]

\* Number.isNaN
isNaN(x) == x.nan

Digits == <<"0", "1", "2", "3", "4", "5", "6", "7", "8", "9">>
IsDigit(c) == \E d \in 1..10 : Digits[d] = c
DigitVal(c) == (CHOOSE d \in 1..10 : Digits[d] = c) - 1

\* White space as String.prototype.trim and parseInt strip it.
IsSpace(c) == c = " "

RECURSIVE trimStart(_)
trimStart(s) ==
    IF s # <<>> /\ IsSpace(Head(s)) THEN trimStart(Tail(s)) ELSE s

RECURSIVE trimEnd(_)
trimEnd(s) ==
    IF s # <<>> /\ IsSpace(s[Len(s)])
    THEN trimEnd(SubSeq(s, 1, Len(s) - 1))
    ELSE s

\* String.prototype.trim
trim(s) == trimEnd(trimStart(s))

\* The value of the longest prefix of decimal digits of s, continuing acc;
\* parseInt stops at the first character that is not a digit.
RECURSIVE digitsValue(_, _)
digitsValue(s, acc) ==
    IF s # <<>> /\ IsDigit(Head(s))
    THEN digitsValue(Tail(s), 10 * acc + DigitVal(Head(s)))
    ELSE acc

\* parseInt(s, 10): leading white space is skipped, one sign is read, then
\* the digits up to the first other character; NaN when there is no digit.
parseInt(s) ==
    LET t == trimStart(s)
        neg == t # <<>> /\ Head(t) = "-"
        signed == t # <<>> /\ Head(t) \in {"-", "+"}
        u == IF signed THEN Tail(t) ELSE t
    IN  IF u = <<>> \/ ~IsDigit(Head(u))
        THEN NaN
        ELSE Num(IF neg THEN 0 - digitsValue(u, 0) ELSE digitsValue(u, 0))

RECURSIVE natToString(_)
natToString(n) ==
    IF n < 10 THEN <<Digits[n + 1]>>
    ELSE natToString(n \div 10) \o <<Digits[(n % 10) + 1]>>

\* String(x) of a number.
String(x) ==
    IF isNaN(x) THEN <<"N", "a", "N">>
    ELSE IF x.int < 0 THEN <<"-">> \o natToString(0 - x.int)
    ELSE natToString(x.int)

(***************************************************************************)
(* What the user can type into the two text fields.                        *)
(***************************************************************************)
NameInputs ==
    { <<" ">>, <<" ", "a", " ">> }

QuantityInputs ==
    { <<"5">>, <<"1", "2", "a", "b", "c">> }

(***************************************************************************)
(* The item store (../data/db): fetch-all, insert, update-by-id and        *)
(* delete-by-id over the rows of one table.                                *)
(***************************************************************************)
Item(id, n, q) == [id |-> id, name |-> n, quantity |-> q]

\* fetchAll: all rows, in a stable order.
fetchItems(db) == db

\* insert: one new row, with the id the store generates.
insertItem(db, id, n, q) == Append(db, Item(id, n, q))

\* update-by-id: name and quantity of the row with that id; a no-op when no
\* row has it.
updateItem(db, id, n, q) ==
    [i \in DOMAIN db |->
        IF db[i].id = id THEN [db[i] EXCEPT !.name = n, !.quantity = q]
        ELSE db[i]]

RECURSIVE withoutId(_, _)
withoutId(db, id) ==
    IF db = <<>> THEN <<>>
    ELSE IF Head(db).id = id THEN withoutId(Tail(db), id)
    ELSE <<Head(db)>> \o withoutId(Tail(db), id)

\* delete-by-id: a no-op when no row has that id.
deleteItem(db, id) == withoutId(db, id)

Ids(db) == { db[i].id : i \in DOMAIN db }

\* What the table may hold when the app is opened: nothing, or a row an
\* earlier run of the app saved.
InitialStores == { <<>>, <<Item(1, <<"a">>, Num(5))>> }

(***************************************************************************)
(* Handler invocations suspended at an await.  A task keeps what its       *)
(* closure captured when the handler was called: the arguments of its      *)
(* store call and the editingId of that render.                            *)
(*   kind: "insert" and "update" are saveOrUpdate's calls, "save" is the    *)
(*         insert of saveItem, "delete" and "mount" the other two handlers *)
(*   pc = "mutate": awaiting insertItem / updateItem / deleteItem          *)
(*   pc = "fetch" : inside loadItems, awaiting fetchItems                  *)
(*   pc = "loaded": fetchItems has read the rows (value); the promise has  *)
(*                  not yet resolved in the controller                     *)
(***************************************************************************)
Task(kind, pc, id, n, q, eid) ==
    [kind |-> kind, pc |-> pc, id |-> id, name |-> n, quantity |-> q,
     editingId |-> eid, value |-> <<>>]

\* useEffect(() => { loadItems(); }, []): the fetch issued on mount.
MountTask == Task("mount", "fetch", Null, <<>>, NaN, Null)

NoAlert == [open |-> FALSE, id |-> Null, editingId |-> Null]

\* The bag of tasks with one more t, with one t less, with one t become u.
Spawn(t) == tasks (+) SetToBag({t})
Finish(t) == tasks (-) SetToBag({t})
Step(t, u) == (tasks (-) SetToBag({t})) (+) SetToBag({u})

(***************************************************************************)
(* saveOrUpdate (index.tsx:135-153)                                        *)
(***************************************************************************)
\* Lines 136-138: the two early returns.
FormValidNoNaNCheck(n, q) == trim(n) # <<>>
FormValid(n, q) == trim(n) # <<>> /\ ~isNaN(parseInt(q))

\* Lines 142 and 144: the name passed to insertItem / updateItem.
NameArgUntrimmed(n) == n
NameArg(n) == trim(n)

\* Lines 137, 142 and 144: the quantity passed to insertItem / updateItem.
QuantityArg(q) == parseInt(q)

\* Lines 141-145: insert when editingId is null, update of editingId otherwise.
SaveCallAlwaysInsert(n, q, eid) ==
    Task("insert", "mutate", Null, NameArg(n), QuantityArg(q), Null)
SaveCall(n, q, eid) ==
    IF eid = Null
    THEN Task("insert", "mutate", Null, NameArg(n), QuantityArg(q), Null)
    ELSE Task("update", "mutate", eid, NameArg(n), QuantityArg(q), Null)

\* The submit button's onPress (lines 244-247).  Invalid input returns
\* before any store call.
saveOrUpdate ==
    /\ ~alert.open
    /\ IF FormValid(name, quantity)
       THEN /\ calls < MaxCalls
            /\ calls' = calls + 1
            /\ tasks' = Spawn(SaveCall(name, quantity, editingId))
            /\ UNCHANGED <<name, quantity, editingId, items, alert, store, nextId>>
       ELSE UNCHANGED vars

(***************************************************************************)
(* saveItem (index.tsx:93-112): the handler that only inserts.  No control *)
(* of the render calls it; it is a step of SpecSaveItem alone.             *)
(***************************************************************************)
\* Lines 95-99 are the two early returns of saveOrUpdate; line 102 passes
\* the form name as it is.
saveItem ==
    /\ ~alert.open
    /\ IF FormValid(name, quantity)
       THEN /\ calls < MaxCalls
            /\ calls' = calls + 1
            /\ tasks' = Spawn(Task("save", "mutate", Null, name,
                                   parseInt(quantity), Null))
            /\ UNCHANGED <<name, quantity, editingId, items, alert, store, nextId>>
       ELSE UNCHANGED vars

(***************************************************************************)
(* The text fields (index.tsx:219-238) and startEdit (index.tsx:171-175)   *)
(***************************************************************************)
setName(text) ==
    /\ ~alert.open
    /\ name' = text
    /\ UNCHANGED <<quantity, editingId, items, alert, tasks, store, nextId, calls>>

setQuantity(text) ==
    /\ ~alert.open
    /\ quantity' = text
    /\ UNCHANGED <<name, editingId, items, alert, tasks, store, nextId, calls>>

\* The Edit icon of a row of the list shown.
startEditFieldsOnly(item) ==
    /\ ~alert.open
    /\ name' = item.name
    /\ quantity' = String(item.quantity)
    /\ UNCHANGED <<editingId, items, alert, tasks, store, nextId, calls>>
startEdit(item) ==
    /\ ~alert.open
    /\ editingId' = item.id
    /\ name' = item.name
    /\ quantity' = String(item.quantity)
    /\ UNCHANGED <<items, alert, tasks, store, nextId, calls>>

(***************************************************************************)
(* confirmDelete (index.tsx:193-214)                                       *)
(***************************************************************************)
\* Line 201: the id passed to deleteItem.
DeleteCallOfEdited(id, eid) == Task("delete", "mutate", eid, <<>>, NaN, eid)
DeleteCall(id, eid) == Task("delete", "mutate", id, <<>>, NaN, eid)

\* The Delete icon of a row: Alert.alert opens the prompt.  The onPress
\* closure of its Delete button holds id and the editingId of this render.
confirmDelete(id) ==
    /\ ~alert.open
    /\ alert' = [open |-> TRUE, id |-> id, editingId |-> editingId]
    /\ UNCHANGED <<name, quantity, editingId, items, tasks, store, nextId, calls>>

\* { text: "Cancel", style: "cancel" }: no onPress.
alertCancelClearsForm ==
    /\ alert.open
    /\ alert' = NoAlert
    /\ name' = <<>> /\ quantity' = <<>> /\ editingId' = Null
    /\ UNCHANGED <<items, tasks, store, nextId, calls>>
alertCancel ==
    /\ alert.open
    /\ alert' = NoAlert
    /\ UNCHANGED <<name, quantity, editingId, items, tasks, store, nextId, calls>>

\* { text: "Delete", onPress }: runs to the await of deleteItem.
alertDelete ==
    /\ alert.open
    /\ calls < MaxCalls
    /\ calls' = calls + 1
    /\ alert' = NoAlert
    /\ tasks' = Spawn(DeleteCall(alert.id, alert.editingId))
    /\ UNCHANGED <<name, quantity, editingId, items, store, nextId>>

(***************************************************************************)
(* Completion of the store calls.                                          *)
(***************************************************************************)
\* Lines 203-207: the test that follows loadItems in the delete handler.
DeletedIsEdited(t) == t.editingId = t.id

\* What a handler does once its await of loadItems() returns:
\* lines 147-149 of saveOrUpdate, lines 203-207 of the delete handler,
\* lines 106-107 of saveItem, nothing for the mount effect.
afterLoadItemsKeepsEditing(t) ==
    IF t.kind \in {"insert", "update"}
    THEN name' = <<>> /\ quantity' = <<>> /\ UNCHANGED editingId
    ELSE IF t.kind = "delete" /\ DeletedIsEdited(t)
    THEN name' = <<>> /\ quantity' = <<>> /\ editingId' = Null
    ELSE IF t.kind = "save"
    THEN name' = <<>> /\ quantity' = <<>> /\ UNCHANGED editingId
    ELSE UNCHANGED <<name, quantity, editingId>>
afterLoadItems(t) ==
    IF t.kind \in {"insert", "update"}
       \/ (t.kind = "delete" /\ DeletedIsEdited(t))
    THEN name' = <<>> /\ quantity' = <<>> /\ editingId' = Null
    ELSE IF t.kind = "save"
    THEN name' = <<>> /\ quantity' = <<>> /\ UNCHANGED editingId
    ELSE UNCHANGED <<name, quantity, editingId>>

\* The store carries out the insert, update or delete of task t; the handler
\* resumes and calls loadItems, which awaits fetchItems (lines 146, 202, 72).
mutationSucceedsPatchingList(t) ==
    /\ t.pc = "mutate"
    /\ CASE t.kind \in {"insert", "save"} ->
              /\ store' = insertItem(store, nextId, t.name, t.quantity)
              /\ items' = Append(items, Item(nextId, t.name, t.quantity))
              /\ nextId' = nextId + 1
         [] t.kind = "update" ->
              /\ store' = updateItem(store, t.id, t.name, t.quantity)
              /\ items' = updateItem(items, t.id, t.name, t.quantity)
              /\ UNCHANGED nextId
         [] t.kind = "delete" ->
              /\ store' = deleteItem(store, t.id)
              /\ items' = deleteItem(items, t.id)
              /\ UNCHANGED nextId
    /\ tasks' = Step(t, [t EXCEPT !.pc = "fetch"])
    /\ UNCHANGED <<name, quantity, editingId, alert, calls>>
mutationSucceeds(t) ==
    /\ t.pc = "mutate"
    /\ CASE t.kind \in {"insert", "save"} ->
              /\ store' = insertItem(store, nextId, t.name, t.quantity)
              /\ nextId' = nextId + 1
         [] t.kind = "update" ->
              /\ store' = updateItem(store, t.id, t.name, t.quantity)
              /\ UNCHANGED nextId
         [] t.kind = "delete" ->
              /\ store' = deleteItem(store, t.id)
              /\ UNCHANGED nextId
    /\ tasks' = Step(t, [t EXCEPT !.pc = "fetch"])
    /\ UNCHANGED <<name, quantity, editingId, items, alert, calls>>

\* The store call of task t fails: the handler's catch logs it
\* (lines 150-152, 208-210).
mutationFailsUncaught(t) ==
    /\ t.pc = "mutate"
    /\ tasks' = Step(t, [t EXCEPT !.pc = "rejected"])
    /\ UNCHANGED <<name, quantity, editingId, items, alert, store, nextId, calls>>
mutationFailsClearing(t) ==
    /\ t.pc = "mutate"
    /\ tasks' = Finish(t)
    /\ name' = <<>> /\ quantity' = <<>> /\ editingId' = Null
    /\ UNCHANGED <<items, alert, store, nextId, calls>>
mutationFails(t) ==
    /\ t.pc = "mutate"
    /\ tasks' = Finish(t)
    /\ UNCHANGED <<name, quantity, editingId, items, alert, store, nextId, calls>>

\* The store reads the rows for the fetchItems of task t.
fetchServed(t) ==
    /\ t.pc = "fetch"
    /\ tasks' = Step(t, [t EXCEPT !.pc = "loaded", !.value = fetchItems(store)])
    /\ UNCHANGED <<name, quantity, editingId, items, alert, store, nextId, calls>>

\* fetchItems of task t fails: loadItems logs it and returns (lines 74-76),
\* and the handler that awaited loadItems goes on.
fetchFails(t) ==
    /\ t.pc = "fetch"
    /\ afterLoadItems(t)
    /\ tasks' = Finish(t)
    /\ UNCHANGED <<items, alert, store, nextId, calls>>

\* Line 73, setItems(value): the list becomes what was fetched, whatever it
\* was (prev).
setItemsAppending(value, prev) == prev \o value
setItems(value, prev) == value

\* fetchItems of task t resolves: setItems(value) (line 73), then the
\* handler that awaited loadItems goes on.
fetchResolves(t) ==
    /\ t.pc = "loaded"
    /\ items' = setItems(t.value, items)
    /\ afterLoadItems(t)
    /\ tasks' = Finish(t)
    /\ UNCHANGED <<alert, store, nextId, calls>>

(***************************************************************************)
(* The program.                                                            *)
(***************************************************************************)
Init ==
    /\ name = <<>>
    /\ quantity = <<>>
    /\ editingId = Null
    /\ items = <<>>
    /\ alert = NoAlert
    /\ tasks = SetToBag({MountTask})
    /\ store \in InitialStores
    /\ nextId = Len(store) + 1
    /\ calls = 0

Next ==
    \/ \E text \in NameInputs : setName(text)
    \/ \E text \in QuantityInputs : setQuantity(text)
    \/ saveOrUpdate
    \/ \E i \in DOMAIN items : startEdit(items[i])
    \/ \E i \in DOMAIN items : confirmDelete(items[i].id)
    \/ alertCancel
    \/ alertDelete
    \/ \E t \in BagToSet(tasks) : mutationSucceeds(t)
    \/ \E t \in BagToSet(tasks) : mutationFails(t)
    \/ \E t \in BagToSet(tasks) : fetchServed(t)
    \/ \E t \in BagToSet(tasks) : fetchFails(t)
    \/ \E t \in BagToSet(tasks) : fetchResolves(t)

Spec == Init /\ [][Next]_vars

\* The program with saveItem called as well, as a handler of the submit
\* button would call it.
NextSaveItem == Next \/ saveItem

SpecSaveItem == Init /\ [][NextSaveItem]_vars

(***************************************************************************)
(* Vocabulary of the properties below.                                     *)
(***************************************************************************)
\* A text that is empty or holds white space only.
IsBlank(s) == \A i \in DOMAIN s : s[i] = " "

\* The integers whose decimal text the properties consider.
QuantityRange == -20..20

\* s is the text of an integer, and the integer it is the text of.
IsIntegerText(s) == \E n \in QuantityRange : String(Num(n)) = s
IntegerOf(s) == CHOOSE n \in QuantityRange : String(Num(n)) = s

\* Steps of a suspended handler t, told by what becomes of it in the bag.
\* Its store call (insert, update, delete) succeeded:
Succeeded(t) ==
    t.pc = "mutate" /\ tasks' = Step(t, [t EXCEPT !.pc = "fetch"])
\* Its store call (insert, update, delete) failed:
MutationFailed(t) == t.pc = "mutate" /\ tasks' = Finish(t)
\* Its fetch failed, and the handler ran to its end:
FetchFailed(t) == t.pc = "fetch" /\ tasks' = Finish(t)
\* Its fetch resolved, and the handler ran to its end:
Resolved(t) == t.pc = "loaded" /\ tasks' = Finish(t)

\* A press of the submit button that issued a store call.
SubmitIssued == ~alert.open /\ ~alert'.open /\ calls' = calls + 1

FormCleared == name' = <<>> /\ quantity' = <<>> /\ editingId' = Null

NoDuplicateIds(rows) ==
    \A i, j \in DOMAIN rows : rows[i].id = rows[j].id => i = j

\* The store calls (insert, update, delete) awaiting completion.
InFlightMutations ==
    BagCardinality([t \in { u \in BagToSet(tasks) : u.pc = "mutate" }
                        |-> CopiesIn(t, tasks)])

(***************************************************************************)
(* C1.  A submit in idle-create with a name that is not blank and a        *)
(* quantity text that is the text of an integer issues one insert of the   *)
(* trimmed name and that integer; when the insert succeeds the store has   *)
(* exactly one more row, with those values and an id no existing row has,  *)
(* and every row it had is unchanged.                                      *)
(***************************************************************************)
C1_SubmitInserts ==
    (SubmitIssued /\ editingId = Null /\ ~IsBlank(name) /\ IsIntegerText(quantity))
        => tasks' = Spawn(Task("insert", "mutate", Null, trim(name),
                               Num(IntegerOf(quantity)), Null))

C1_InsertAddsOne ==
    \A t \in BagToSet(tasks) :
        (t.kind = "insert" /\ Succeeded(t))
            => /\ Len(store') = Len(store) + 1
               /\ SubSeq(store', 1, Len(store)) = store
               /\ store'[Len(store')].name = t.name
               /\ store'[Len(store')].quantity = t.quantity
               /\ store'[Len(store')].id \notin Ids(store)

C1_InsertExactlyOne == [][C1_SubmitInserts /\ C1_InsertAddsOne]_vars

\* An insert issued from the form has succeeded next to an existing row.
C1_Witness ==
    \E t \in BagToSet(tasks) :
        /\ t.kind = "insert" /\ t.pc = "fetch"
        /\ Len(store) = 2
        /\ store[2] = Item(2, <<"a">>, Num(5))
        /\ store[1] = Item(1, <<"a">>, Num(5))

(***************************************************************************)
(* C2.  A submit with invalid input (a blank name, or a quantity text that *)
(* is not the text of an integer) issues no store call and changes         *)
(* nothing.                                                                *)
(***************************************************************************)
C2_InvalidSubmitIsNoOp ==
    [][(~alert.open /\ (IsBlank(name) \/ ~IsIntegerText(quantity)))
          => (saveOrUpdate => UNCHANGED vars)]_vars

(***************************************************************************)
(* C3.  As claimed: when a handler whose mutation succeeded has run to its *)
(* end, whatever became of its re-fetch, the list shown is the current     *)
(* content of the store.                                                   *)
(***************************************************************************)
C3_ListEqualsStoreAfterMutation ==
    [][\A t \in BagToSet(tasks) :
          (t.kind # "mount" /\ (Resolved(t) \/ FetchFailed(t)))
              => items' = store']_vars

(***************************************************************************)
(* C3, amended.  A re-fetch reads the whole store, every row once; when it *)
(* resolves the list shown is exactly what it read; when it fails the list *)
(* is left as it was.                                                      *)
(***************************************************************************)
C3_ListIsWhatWasFetched ==
    /\ [](\A t \in BagToSet(tasks) :
            t.pc = "loaded" => NoDuplicateIds(t.value))
    /\ [](NoDuplicateIds(items) /\ NoDuplicateIds(store))
    /\ [][\A t \in BagToSet(tasks) :
            /\ (t.pc = "fetch" /\ ~FetchFailed(t) /\ tasks' # tasks
                /\ CopiesIn(t, tasks') < CopiesIn(t, tasks))
                  => tasks' = Step(t, [t EXCEPT !.pc = "loaded", !.value = store])
            /\ Resolved(t) => items' = t.value
            /\ FetchFailed(t) => items' = items]_vars

\* A submit has run to its end, its re-fetch resolved, and the list shows
\* the row it inserted next to the one the store had.
C3_Witness ==
    /\ tasks = EmptyBag
    /\ calls = 1
    /\ Len(store) = 2
    /\ items = store

(***************************************************************************)
(* C4.  At most one store mutation (insert, update or delete) is awaiting  *)
(* completion at any time.                                                 *)
(***************************************************************************)
C4_OneMutationInFlight == InFlightMutations <= 1

(***************************************************************************)
(* C5.  When the handler of a confirmed delete(id), its delete and its      *)
(* re-fetch done, runs to its end while the controller is editing id, the  *)
(* controller returns to idle-create and the form is cleared.              *)
(***************************************************************************)
C5_DeleteOfEditedClearsForm ==
    [][\A t \in BagToSet(tasks) :
          (t.kind = "delete" /\ Resolved(t) /\ editingId = t.id)
              => FormCleared]_vars

(***************************************************************************)
(* C6.  Confirming the prompt opened for id issues one delete of id; when  *)
(* it succeeds the store holds exactly the rows it held whose id is not    *)
(* id, each with its id, name and quantity, in the same order; the store   *)
(* is unchanged when no row has that id.                                   *)
(***************************************************************************)
C6_ConfirmIssuesDelete ==
    (alert.open /\ ~alert'.open /\ calls' = calls + 1)
        => \E t \in BagToSet(tasks') :
              /\ t.kind = "delete" /\ t.pc = "mutate" /\ t.id = alert.id
              /\ tasks' = Spawn(t)

C6_DeleteRemovesOne ==
    \A t \in BagToSet(tasks) :
        (t.kind = "delete" /\ Succeeded(t))
            => /\ store' = SelectSeq(store, LAMBDA r : r.id # t.id)
               /\ (t.id \notin Ids(store) => store' = store)
               /\ Len(store') >= Len(store) - 1

C6_DeleteRemovesExactlyId ==
    [][C6_ConfirmIssuesDelete /\ C6_DeleteRemovesOne]_vars

\* The delete of row 1 has succeeded and row 2 is still there, as it was.
C6_Witness ==
    \E t \in BagToSet(tasks) :
        /\ t.kind = "delete" /\ t.pc = "fetch" /\ t.id = 1
        /\ store = <<Item(2, <<"a">>, Num(12))>>

(***************************************************************************)
(* C7.  Opening the delete prompt and cancelling it issue no store call    *)
(* and leave the store, the list, the form fields and the edit-mode flag   *)
(* as they were.                                                           *)
(***************************************************************************)
C7_CancelChangesNothing ==
    [][((\E i \in DOMAIN items : confirmDelete(items[i].id)) \/ alertCancel)
          => UNCHANGED <<store, nextId, items, name, quantity, editingId,
                         tasks, calls>>]_vars

\* The prompt is open for a listed row while that row is being edited.
C7_Witness ==
    /\ alert.open
    /\ alert.id = editingId
    /\ name # <<>>
    /\ \E i \in DOMAIN store : store[i].id = alert.id

(***************************************************************************)
(* C8.  As claimed: a failing store call (fetch, insert, update or delete) *)
(* changes nothing of the list, the form fields and the edit-mode flag.    *)
(***************************************************************************)
C8_FailureChangesNothingVisible ==
    [][\A t \in BagToSet(tasks) :
          (MutationFailed(t) \/ FetchFailed(t)) => UNCHANGED visible]_vars

(***************************************************************************)
(* C8, amended.  A failing insert, update or delete, and a failing fetch   *)
(* on mount, change nothing visible.  A failing re-fetch leaves the list   *)
(* as it was, and the handler goes on as after a re-fetch that resolved: a *)
(* submit clears the form and returns to idle-create; a delete does so     *)
(* when the id deleted is the id that was being edited when the delete was *)
(* requested, and changes nothing otherwise.                               *)
(***************************************************************************)
C8_FailureEffects ==
    [][\A t \in BagToSet(tasks) :
          /\ MutationFailed(t) => UNCHANGED <<visible, store>>
          /\ FetchFailed(t) =>
                /\ items' = items
                /\ t.kind = "mount" => UNCHANGED visible
                /\ t.kind \in {"insert", "update"} => FormCleared
                /\ (t.kind = "delete" /\ t.editingId = t.id) => FormCleared
                /\ (t.kind = "delete" /\ t.editingId # t.id)
                      => UNCHANGED visible]_vars

\* The one submit of the run has inserted row 2 and run to its end, the form
\* is cleared, and the list still shows row 1 alone.
C8_Witness ==
    /\ tasks = EmptyBag
    /\ calls = 1
    /\ Len(store) = 2
    /\ Len(items) = 1
    /\ name = <<>> /\ quantity = <<>> /\ editingId = Null

(***************************************************************************)
(* C9.  With the form as startEdit(item) leaves it for an item of the list *)
(* shown, a submit issues one update carrying the item's id, name and      *)
(* quantity and no insert; the update, when it succeeds, leaves the number *)
(* of rows and their ids as they were.                                     *)
(***************************************************************************)
C9_SubmitAfterStartEdit ==
    \A i \in DOMAIN items :
        (SubmitIssued /\ editingId = items[i].id /\ name = items[i].name
            /\ quantity = String(items[i].quantity))
            => tasks' = Spawn(Task("update", "mutate", items[i].id,
                                   items[i].name, items[i].quantity, Null))

C9_UpdateKeepsCount ==
    \A t \in BagToSet(tasks) :
        (t.kind = "update" /\ Succeeded(t))
            => /\ Len(store') = Len(store)
               /\ \A i \in DOMAIN store : store'[i].id = store[i].id

C9_EditThenSubmitUpdates ==
    [][C9_SubmitAfterStartEdit /\ C9_UpdateKeepsCount]_vars

\* The update issued for a listed row, with the row's own values, has
\* succeeded; the store holds two rows.
C9_Witness ==
    \E t \in BagToSet(tasks) : \E i \in DOMAIN items :
        /\ t.kind = "update" /\ t.pc = "fetch"
        /\ t.id = items[i].id /\ t.name = items[i].name
        /\ t.quantity = items[i].quantity
        /\ Len(store) = 2

(***************************************************************************)
(* C10.  Every row of the store has a name that is not blank and a         *)
(* quantity that is an integer, never NaN; ids are unique; and no step     *)
(* changes the id of a row: the ids of the store stay as they are, or one  *)
(* new id is added at the end, or one id is removed.                       *)
(***************************************************************************)
IdSeq(db) == [i \in DOMAIN db |-> db[i].id]

C10_RowsValid ==
    /\ \A i \in DOMAIN store :
          /\ ~IsBlank(store[i].name)
          /\ ~isNaN(store[i].quantity)
          /\ store[i].quantity.int \in Int
    /\ NoDuplicateIds(store)

C10_IdsImmutable ==
    \/ IdSeq(store') = IdSeq(store)
    \/ \E id \in Ids(store') \ Ids(store) :
          IdSeq(store') = Append(IdSeq(store), id)
    \/ \E id \in Ids(store) :
          IdSeq(store') = SelectSeq(IdSeq(store), LAMBDA x : x # id)

C10_PersistedItemsValid == []C10_RowsValid /\ [][C10_IdsImmutable]_vars

\* Two rows are persisted, the second one saved from the form.
C10_Witness ==
    /\ Len(store) = 2
    /\ store[2] = Item(2, <<"a">>, Num(12))

(***************************************************************************)
(* C11.  No store failure leaves a handler: every handler in flight is     *)
(* suspended at an await of a store call, none is left rejected, and there *)
(* is no error state: whenever no prompt is open the controller accepts    *)
(* startEdit and requestDelete of every listed item and a submit.          *)
(***************************************************************************)
C11_NoFailurePropagates ==
    /\ \A t \in BagToSet(tasks) : t.pc \in {"mutate", "fetch", "loaded"}
    /\ ~alert.open =>
          /\ \A i \in DOMAIN items :
                /\ ENABLED startEdit(items[i])
                /\ ENABLED confirmDelete(items[i].id)
          /\ calls < MaxCalls => ENABLED saveOrUpdate

\* The store was empty from the start and still is, and the one call of the
\* run, an insert, has ended: it failed, and the controller is as before it.
C11_Witness ==
    /\ tasks = EmptyBag
    /\ calls = 1
    /\ store = <<>> /\ nextId = 1
    /\ name = <<" ", "a", " ">> /\ quantity = <<"5">>
    /\ ENABLED saveOrUpdate

(***************************************************************************)
(* C12.  A submit whose insert or update succeeds goes on in this order:   *)
(* the store mutation, which leaves list, form and flag as they are; the   *)
(* re-fetch, served without touching them either; then, the re-fetch       *)
(* done, the end of the handler, where the form fields become empty and    *)
(* the edit-mode flag null, whatever they held.                            *)
(***************************************************************************)
C12_SubmitOrder ==
    [][\A t \in BagToSet(tasks) :
          t.kind \in {"insert", "update"} =>
              /\ Succeeded(t) => UNCHANGED visible
              /\ (t.pc = "fetch" /\ CopiesIn(t, tasks') < CopiesIn(t, tasks)
                     /\ ~FetchFailed(t))
                    => /\ UNCHANGED <<visible, store>>
                       /\ tasks' = Step(t, [t EXCEPT !.pc = "loaded",
                                                     !.value = store])
              /\ t.pc = "mutate" => ~Resolved(t) /\ ~FetchFailed(t)
              /\ (Resolved(t) \/ FetchFailed(t)) => FormCleared]_vars

\* An update of row 1 from quantity 5 to 12 has run to its end: the list
\* shows it, the form is empty and the controller is in idle-create.
C12_Witness ==
    /\ tasks = EmptyBag
    /\ calls = 1
    /\ store = <<Item(1, <<"a">>, Num(12))>>
    /\ items = store
    /\ name = <<>> /\ quantity = <<>> /\ editingId = Null

(***************************************************************************)
(* C13.  startEdit(item), from idle-create or from editing of any id, puts *)
(* the controller in editing(item.id) with the form name item.name and the *)
(* form quantity the decimal text of item.quantity; it issues no store     *)
(* call and leaves the store and the list as they are.                     *)
(***************************************************************************)
\* The natural number a sequence of digits denotes.
RECURSIVE DigitsDenote(_)
DigitsDenote(d) ==
    IF d = <<>> THEN 0
    ELSE 10 * DigitsDenote(SubSeq(d, 1, Len(d) - 1)) + DigitVal(d[Len(d)])

\* s is the decimal text of the integer n: digits, no leading zero, a
\* minus sign before them when n is negative.
IsDecimalTextOf(s, n) ==
    LET d == IF n < 0 THEN Tail(s) ELSE s IN
    /\ s # <<>>
    /\ n < 0 => Head(s) = "-"
    /\ d # <<>>
    /\ \A i \in DOMAIN d : IsDigit(d[i])
    /\ Len(d) > 1 => d[1] # "0"
    /\ DigitsDenote(d) = (IF n < 0 THEN 0 - n ELSE n)

C13_StartEditPopulatesForm ==
    [][\A i \in DOMAIN items :
          startEdit(items[i]) =>
              /\ editingId' = items[i].id
              /\ name' = items[i].name
              /\ ~isNaN(items[i].quantity)
              /\ IsDecimalTextOf(quantity', items[i].quantity.int)
              /\ UNCHANGED <<store, nextId, items, tasks, calls, alert>>]_vars

\* The controller is editing row 1, whose quantity 12 the form shows as the
\* text "12", a text the user cannot have typed.
C13_Witness ==
    /\ editingId = 1
    /\ name = <<"a">>
    /\ quantity = <<"1", "2">>
    /\ \E i \in DOMAIN items : items[i] = Item(1, <<"a">>, Num(12))

(***************************************************************************)
(* C14.  A submit in editing(id) with a name that is not blank and a       *)
(* quantity text that is the text of an integer issues one update of id    *)
(* with the trimmed name and that integer, and no insert; when the update  *)
(* succeeds the row with that id has that name and quantity, every other   *)
(* row is unchanged, and the rows, their ids and their number are as they  *)
(* were.                                                                   *)
(***************************************************************************)
C14_SubmitUpdates ==
    (SubmitIssued /\ editingId # Null /\ ~IsBlank(name) /\ IsIntegerText(quantity))
        => tasks' = Spawn(Task("update", "mutate", editingId, trim(name),
                               Num(IntegerOf(quantity)), Null))

C14_UpdateChangesOneRow ==
    \A t \in BagToSet(tasks) :
        (t.kind = "update" /\ Succeeded(t))
            => /\ Len(store') = Len(store)
               /\ nextId' = nextId
               /\ \A i \in DOMAIN store :
                     IF store[i].id = t.id
                     THEN store'[i] = Item(t.id, t.name, t.quantity)
                     ELSE store'[i] = store[i]

C14_UpdateInPlace == [][C14_SubmitUpdates /\ C14_UpdateChangesOneRow]_vars

\* The update of row 2 to quantity 5 has succeeded next to row 1; the list
\* still shows row 2 with the quantity 12 it had.
C14_Witness ==
    \E t \in BagToSet(tasks) :
        /\ t.kind = "update" /\ t.pc = "fetch" /\ t.id = 2
        /\ t.quantity = Num(5)
        /\ store = <<Item(1, <<"a">>, Num(5)), Item(2, <<"a">>, Num(5))>>
        /\ Len(items) = 2 /\ items[2].quantity = Num(12)

(***************************************************************************)
(* C15.  The list shown changes only when a fetch resolves, and then it    *)
(* becomes, whole, what that fetch read; what a fetch reads is the whole   *)
(* content of the store at the moment it is served, and it is kept as read *)
(* until it resolves.  So the list is always the initial empty list or the *)
(* content the store had when an earlier fetch was served.                 *)
(***************************************************************************)
C15_ListChangesOnlyByFetch ==
    items' # items =>
        \E t \in BagToSet(tasks) : Resolved(t) /\ items' = t.value

C15_FetchedValueIsStore ==
    \A u \in BagToSet(tasks') :
        (u.pc = "loaded" /\ CopiesIn(u, tasks') > CopiesIn(u, tasks))
            => u.value = store /\ store' = store

C15_ListIsFetchedSnapshot ==
    /\ Init => items = <<>>
    /\ [][C15_ListChangesOnlyByFetch /\ C15_FetchedValueIsStore]_vars

\* The list shows row 1, which the store no longer holds: it is what an
\* earlier fetch read.
C15_Witness ==
    /\ items = <<Item(1, <<"a">>, Num(5))>>
    /\ store = <<>>
    /\ tasks = EmptyBag

(***************************************************************************)
(* C16.  Whenever no store request is in flight and the controller is in   *)
(* editing(id), the store holds a row with that id.                        *)
(***************************************************************************)
C16_EditedItemExists ==
    (tasks = EmptyBag /\ editingId # Null) => editingId \in Ids(store)

(***************************************************************************)
(* C17.  When the handler of a confirmed delete(id), its delete and its    *)
(* re-fetch done, runs to its end while the controller is editing another  *)
(* id or is in idle-create, the edit-mode flag and the form fields are     *)
(* left as they are.                                                       *)
(***************************************************************************)
C17_DeleteOfOtherKeepsForm ==
    [][\A t \in BagToSet(tasks) :
          (t.kind = "delete" /\ Resolved(t) /\ editingId # t.id)
              => UNCHANGED <<name, quantity, editingId>>]_vars

(***************************************************************************)
(* C18.  Every insert and update call issued, by saveOrUpdate and by       *)
(* saveItem, passes a name that is not empty and has no white space at     *)
(* either end.                                                             *)
(***************************************************************************)
C18_NamesPassedAreTrimmed ==
    \A t \in BagToSet(tasks) :
        t.kind \in {"insert", "update", "save"}
            => /\ t.name # <<>>
               /\ t.name[1] # " "
               /\ t.name[Len(t.name)] # " "

====
